---- MODULE Spec2Model ----
(***************************************************************************)
(* Model of main.py: the Glassdoor review script.  The script is one       *)
(* straight-line batch run; each cell of the script is one action and pc   *)
(* is the position of the run.                                             *)
(*                                                                         *)
(* Time is counted in minutes since START_DATE (2017-09-01 00:00), so a    *)
(* calendar day is the interval [d*Day, (d+1)*Day).  The column            *)
(* "recommends" is counted in halves (0 = no, 1 = 0.5, 2 = yes) so that    *)
(* the 0.5 written by fillna is an integer.  A missing cell is NaN.        *)
(* The columns employed/technical/years of raw are read only by the        *)
(* report text and are left out; the report and the figure are modelled    *)
(* by whether they have been written.  The sample values of the            *)
(* interpolated and filtered frames are real numbers that no property      *)
(* below reads: those frames are modelled by their index and length.       *)
(***************************************************************************)
EXTENDS Integers, Sequences, FiniteSets, TLC

VARIABLES pc, err, raw, clean, readme, interp_date, lp_short, lp_long, plot

vars == <<pc, err, raw, clean, readme, interp_date, lp_short, lp_long, plot>>

(* ------------------------------ constants ------------------------------ *)

NaN == -99

Hour == 60

HoursPerDay == 24

Day == HoursPerDay * Hour

START_DATE == 0

END_DATE == 1716480

FILT_ORDER == 2

REC_NO == 0

REC_HALF == 1

REC_YES == 2

TIMELINE_KEYS == <<"stars", "recommends", "outlook", "ceo_opinion">>

(* ------------------------------- bounds -------------------------------- *)

MaxRecords == 26

MaxRows == 3

(* ------------------------------- helpers ------------------------------- *)

isna(x) == x = NaN

Ge(x, k) == ~isna(x) /\ x >= k

Le(x, k) == ~isna(x) /\ x <= k

DayOf(t) == t \div Day

Row(i, d, s, r, o, c) ==
  [idx |-> i, date |-> d, stars |-> s, recommends |-> r, outlook |-> o,
   ceo_opinion |-> c]

Dates(f) == {f[i].date : i \in 1..Len(f)}

SetMin(S) == CHOOSE x \in S : \A y \in S : x <= y

SetMax(S) == CHOOSE x \in S : \A y \in S : x >= y

(* ------------------------------- inputs -------------------------------- *)

(* Sheets with many rows on few timestamps, newest first, only stars set. *)
BulkStamp(c0, c1, c2, i) ==
  IF i <= c2 THEN Day ELSE IF i <= c2 + c1 THEN Hour ELSE 0

BulkSheets ==
  { [i \in 1..(c0 + c1 + c2) |->
       Row(i - 1, BulkStamp(c0, c1, c2, i), 5, NaN, NaN, NaN)] :
    <<c0, c1, c2>> \in
      {t \in (0..MaxRecords) \X (0..MaxRecords) \X (0..MaxRecords) :
         t[1] + t[2] + t[3] <= MaxRecords} }

(* One-row sheets with every combination of cell values. *)
CellSheets ==
  { <<Row(0, d, s, r, o, c)>> :
    <<d, s, r, o, c>> \in
      {0 - Day, 0, Hour + 30, END_DATE, END_DATE + Hour}
      \X ((1..5) \cup {NaN})
      \X {REC_NO, REC_YES, NaN}
      \X {-1, 0, 1, NaN}
      \X {-1, 0, 1, NaN} }

(* Short sheets in any row order with only stars set. *)
ShortRows ==
  { <<d, s>> : d \in {0 - Day, 0, Hour + 30, Day}, s \in {1, 3, 5} }

ShortSheets ==
  UNION { { [i \in 1..n |-> Row(i - 1, f[i][1], f[i][2], NaN, NaN, NaN)] :
            f \in [1..n -> ShortRows] } : n \in 0..MaxRows }

Sheets == BulkSheets \cup CellSheets \cup ShortSheets

Unset == [assigned |-> FALSE, index |-> <<>>, columns |-> <<>>, len |-> 0]

Init ==
  /\ pc = "load"
  /\ err = "none"
  /\ raw \in Sheets
  /\ clean = <<>>
  /\ readme = FALSE
  /\ interp_date = <<>>
  /\ lp_short = Unset
  /\ lp_long = Unset
  /\ plot = FALSE

Abort(e) ==
  /\ pc' = "failed"
  /\ err' = e

(* ------------------------- load-time assertions ------------------------ *)

Descending(f) == \A i \in 1..(Len(f) - 1) : f[i].date >= f[i + 1].date

CheckOrder ==
  /\ pc = "load"
  /\ IF Descending(raw)
       THEN pc' = "stars" /\ err' = err
       ELSE Abort("OrderingViolation")
  /\ UNCHANGED <<raw, clean, readme, interp_date, lp_short, lp_long, plot>>

StarsPresent(f) == \A i \in 1..Len(f) : ~isna(f[i].stars)

CheckStars ==
  /\ pc = "stars"
  /\ IF StarsPresent(raw)
       THEN pc' = "sort" /\ err' = err
       ELSE Abort("MissingStars")
  /\ UNCHANGED <<raw, clean, readme, interp_date, lp_short, lp_long, plot>>

(* ------------------------------ sort, range ---------------------------- *)

SortRank(f, i) ==
  Cardinality({j \in 1..Len(f) : f[j].date < f[i].date})
  + Cardinality({j \in 1..(i - 1) : f[j].date = f[i].date}) + 1

StableSort(f) ==
  [p \in 1..Len(f) |-> f[CHOOSE i \in 1..Len(f) : SortRank(f, i) = p]]

Reverse(f) == [p \in 1..Len(f) |-> f[Len(f) + 1 - p]]

(* sort_values uses quicksort: insertion sort (stable) up to 16 rows, and  *)
(* beyond that the order of rows with equal dates is not fixed; the two    *)
(* outcomes kept are ties in sheet order and ties in reversed sheet order  *)
(* (the sheet is descending here, so its reverse is ascending).            *)
SortOutcomes(f) ==
  IF Len(f) <= 16 THEN {StableSort(f)} ELSE {StableSort(f), Reverse(f)}

Sort ==
  /\ pc = "sort"
  /\ \E s \in SortOutcomes(raw) : raw' = s
  /\ pc' = "range"
  /\ UNCHANGED <<err, clean, readme, interp_date, lp_short, lp_long, plot>>

in_date_range(r) == START_DATE <= r.date /\ r.date <= END_DATE

FilterRange ==
  /\ pc = "range"
  /\ raw' = SelectSeq(raw, in_date_range)
  /\ pc' = "report"
  /\ UNCHANGED <<err, clean, readme, interp_date, lp_short, lp_long, plot>>

(* -------------------------------- report ------------------------------- *)

WriteReport ==
  /\ pc = "report"
  /\ readme' = TRUE
  /\ pc' = "clean"
  /\ UNCHANGED <<err, raw, clean, interp_date, lp_short, lp_long, plot>>

MakeClean ==
  /\ pc = "clean"
  /\ clean' = SelectSeq(raw, in_date_range)
  /\ pc' = "dedup"
  /\ UNCHANGED <<err, raw, readme, interp_date, lp_short, lp_long, plot>>

(* ------------------------------ Deduplicator --------------------------- *)

duplicated(c, i) == \E j \in 1..Len(c) : j # i /\ c[j].date = c[i].date

dup_date_data(c) == {i \in 1..Len(c) : duplicated(c, i)}

(* groupby("date"): the rows of dup_date_data holding the date of row i. *)
group(c, i) == {j \in dup_date_data(c) : c[j].date = c[i].date}

PosInGroup(c, i) == Cardinality({j \in group(c, i) : j < i}) + 1

hourly_range(date, periods) == [k \in 1..periods |-> date + (k - 1) * Hour]

Dedup(c) ==
  [i \in 1..Len(c) |->
     IF i \in dup_date_data(c)
       THEN [c[i] EXCEPT !.date =
               hourly_range(c[i].date, Cardinality(group(c, i)))[PosInGroup(c, i)]]
       ELSE c[i]]

Deduplicate ==
  /\ pc = "dedup"
  /\ clean' = Dedup(clean)
  /\ pc' = "unique"
  /\ UNCHANGED <<err, raw, readme, interp_date, lp_short, lp_long, plot>>

AllUniqueUnchecked(c) == TRUE

AllUnique(c) == \A i, j \in 1..Len(c) : i # j => c[i].date # c[j].date

CheckUnique ==
  /\ pc = "unique"
  /\ IF AllUnique(clean)
       THEN pc' = "impute" /\ err' = err
       ELSE Abort("DuplicateTimestamp")
  /\ UNCHANGED <<raw, clean, readme, interp_date, lp_short, lp_long, plot>>

(* -------------------------------- Imputer ------------------------------ *)

infer_recommends_from_outlook(r) ==
  IF isna(r.recommends) /\ ~isna(r.outlook)
    THEN [r EXCEPT !.recommends = IF r.outlook > 0 THEN REC_YES ELSE REC_NO]
    ELSE IF isna(r.recommends) /\ Ge(r.stars, 4)
      THEN [r EXCEPT !.recommends = REC_YES]
      ELSE r

infer_recommends_from_3(r) ==
  IF isna(r.recommends) /\ Ge(r.stars, 3)
    THEN [r EXCEPT !.recommends = REC_YES]
    ELSE r

infer_recommends(r) ==
  IF isna(r.recommends) /\ Ge(r.stars, 4)
    THEN [r EXCEPT !.recommends = REC_YES]
    ELSE r

infer_outlook_unmasked(r) ==
  LET r1 == IF Ge(r.stars, 4) THEN [r EXCEPT !.outlook = 1] ELSE r
  IN  IF Le(r.stars, 2) THEN [r1 EXCEPT !.outlook = -1] ELSE r1

infer_outlook(r) ==
  LET missing == isna(r.outlook)
      r1 == IF missing /\ Ge(r.stars, 4) THEN [r EXCEPT !.outlook = 1] ELSE r
  IN  IF missing /\ Le(r.stars, 2) THEN [r1 EXCEPT !.outlook = -1] ELSE r1

fillna_no_outlook(r) ==
  [r EXCEPT !.recommends = IF isna(@) THEN REC_HALF ELSE @,
            !.ceo_opinion = IF isna(@) THEN 0 ELSE @]

fillna(r) ==
  [r EXCEPT !.recommends = IF isna(@) THEN REC_HALF ELSE @,
            !.outlook = IF isna(@) THEN 0 ELSE @,
            !.ceo_opinion = IF isna(@) THEN 0 ELSE @]

ImputeRow(r) == fillna(infer_outlook(infer_recommends(r)))

Impute ==
  /\ pc = "impute"
  /\ clean' = [i \in 1..Len(clean) |-> ImputeRow(clean[i])]
  /\ pc' = "interp"
  /\ UNCHANGED <<err, raw, readme, interp_date, lp_short, lp_long, plot>>

(* ------------------------------- Resampler ----------------------------- *)

date_range_ceil(start, end) ==
  [k \in 1..((end - start + Hour - 1) \div Hour + 1) |-> start + (k - 1) * Hour]

date_range(start, end) ==
  [k \in 1..((end - start) \div Hour + 1) |-> start + (k - 1) * Hour]

(* min() and max() of an empty date column are NaT, which date_range      *)
(* refuses with a ValueError.                                              *)
Resample ==
  /\ pc = "interp"
  /\ IF Len(clean) = 0
       THEN Abort("EmptySeries") /\ interp_date' = interp_date
       ELSE /\ interp_date' = date_range(SetMin(Dates(clean)), SetMax(Dates(clean)))
            /\ pc' = "filter"
            /\ err' = err
  /\ UNCHANGED <<raw, clean, readme, lp_short, lp_long, plot>>

(* ----------------------------- DualBandFilter -------------------------- *)

(* butter(N, Wn) returns N + 1 coefficients in b and in a; filtfilt pads   *)
(* 3 * max(len(a), len(b)) samples at each end and refuses a series that   *)
(* is not longer than the padding.                                         *)
padlen == 3 * (FILT_ORDER + 1)

filtfilt_ok_unvalidated(n) == n > 0

filtfilt_ok(n) == n > padlen

filtfilt_len(n) == (n + 2 * padlen) - 2 * padlen

lowpass(index) ==
  [assigned |-> TRUE, index |-> index, columns |-> TIMELINE_KEYS,
   len |-> filtfilt_len(Len(index))]

Filter ==
  /\ pc = "filter"
  /\ IF filtfilt_ok(Len(interp_date))
       THEN /\ lp_short' = lowpass(interp_date)
            /\ lp_long' = lowpass(interp_date)
            /\ pc' = "plot"
            /\ err' = err
       ELSE Abort("SeriesTooShort") /\ UNCHANGED <<lp_short, lp_long>>
  /\ UNCHANGED <<raw, clean, readme, interp_date, plot>>

(* --------------------------------- plot -------------------------------- *)

SavePlot ==
  /\ pc = "plot"
  /\ plot' = TRUE
  /\ pc' = "done"
  /\ UNCHANGED <<err, raw, clean, readme, interp_date, lp_short, lp_long>>

Next ==
  \/ CheckOrder
  \/ CheckStars
  \/ Sort
  \/ FilterRange
  \/ WriteReport
  \/ MakeClean
  \/ Deduplicate
  \/ CheckUnique
  \/ Impute
  \/ Resample
  \/ Filter
  \/ SavePlot

Spec == Init /\ [][Next]_vars

(* ---------------------------- stage predicates ------------------------- *)

(* The uniqueness assertion has been evaluated. *)
UniquenessChecked ==
  \/ pc \in {"impute", "interp", "filter", "plot", "done"}
  \/ pc = "failed" /\ err \in {"DuplicateTimestamp", "EmptySeries", "SeriesTooShort"}

(* The Deduplicator ran and the uniqueness assertion passed. *)
DedupSucceeded ==
  \/ pc \in {"impute", "interp", "filter", "plot", "done"}
  \/ pc = "failed" /\ err \in {"EmptySeries", "SeriesTooShort"}

(* The Imputer has run. *)
Imputed ==
  \/ pc \in {"interp", "filter", "plot", "done"}
  \/ pc = "failed" /\ err \in {"EmptySeries", "SeriesTooShort"}

(* The Resampler has built the grid. *)
Resampled ==
  \/ pc \in {"filter", "plot", "done"}
  \/ pc = "failed" /\ err = "SeriesTooShort"

(* The filter stage has been attempted. *)
FilterAttempted ==
  \/ pc \in {"plot", "done"}
  \/ pc = "failed" /\ err = "SeriesTooShort"

Rows == 1..Len(clean)

(* From MakeClean on, raw[i] is row i of clean as the Deduplicator and the *)
(* Imputer received it: raw is not written again.                          *)
SameDay(i, j) == DayOf(raw[i].date) = DayOf(raw[j].date)

DayRun(i) == {j \in 1..Len(raw) : SameDay(i, j)}

OnlyStars(r) ==
  ~isna(r.stars) /\ isna(r.recommends) /\ isna(r.outlook) /\ isna(r.ceo_opinion)

(* ------------------------------- claims -------------------------------- *)

(* C1 (as stated): for every ascending input in which no calendar day     *)
(* holds more than 24 records, the Deduplicator succeeds, the output      *)
(* timestamps are pairwise distinct and the records of each day keep      *)
(* their relative order, also when same-day records differ in time of day. *)
C1_DedupDistinctPerDay ==
  (UniquenessChecked /\ \A i \in 1..Len(raw) : Cardinality(DayRun(i)) <= HoursPerDay)
    => /\ err # "DuplicateTimestamp"
       /\ AllUnique(clean)
       /\ \A i, j \in Rows : (i < j /\ SameDay(i, j)) => clean[i].date < clean[j].date

(* C2 (as stated): when a run of records sharing a day has more than 24   *)
(* members the Deduplicator fails with CapacityExceeded and gives no      *)
(* record of the run a timestamp on a later calendar day.                 *)
C2_CapacityExceeded ==
  UniquenessChecked =>
    \A i \in 1..Len(raw) :
      Cardinality(DayRun(i)) > HoursPerDay
        => /\ pc = "failed" /\ err = "CapacityExceeded"
           /\ DayOf(clean[i].date) = DayOf(raw[i].date)

(* C3 (as stated): for every record with recommends missing and outlook   *)
(* present the Imputer sets recommends from outlook (outlook <= 0 gives   *)
(* no, outlook > 0 gives yes), whatever the value of stars.               *)
C3_RecommendsFromOutlook ==
  Imputed =>
    \A i \in Rows :
      (isna(raw[i].recommends) /\ ~isna(raw[i].outlook))
        => clean[i].recommends = IF raw[i].outlook > 0 THEN REC_YES ELSE REC_NO

(* C3 (amended): for every record with recommends missing and outlook     *)
(* present the Imputer sets recommends from stars alone (stars >= 4 gives *)
(* yes, otherwise 0.5), whatever the value of outlook.                    *)
C3_RecommendsFromStars ==
  Imputed =>
    \A i \in Rows :
      (isna(raw[i].recommends) /\ ~isna(raw[i].outlook))
        => clean[i].recommends = IF raw[i].stars >= 4 THEN REC_YES ELSE REC_HALF

C3_Witness ==
  /\ Imputed
  /\ \E i \in Rows :
       /\ isna(raw[i].recommends)
       /\ raw[i].outlook = -1
       /\ raw[i].stars = 5
       /\ clean[i].recommends = REC_YES

(* C4 (as stated): after the Imputer no tracked field of any record is    *)
(* missing and every value it wrote lies in the observed domain:          *)
(* recommends in {no, yes}, outlook and ceo_opinion in {-1, 0, +1}.       *)
C4_FilledInObservedDomain ==
  Imputed =>
    \A i \in Rows :
      /\ ~isna(clean[i].stars) /\ ~isna(clean[i].recommends)
      /\ ~isna(clean[i].outlook) /\ ~isna(clean[i].ceo_opinion)
      /\ isna(raw[i].recommends) => clean[i].recommends \in {REC_NO, REC_YES}
      /\ isna(raw[i].outlook) => clean[i].outlook \in {-1, 0, 1}
      /\ isna(raw[i].ceo_opinion) => clean[i].ceo_opinion \in {-1, 0, 1}

(* C4 (amended): after the Imputer no tracked field of any record is      *)
(* missing; a recommends value it wrote is 0.5 or yes (1), and an outlook *)
(* or ceo_opinion value it wrote lies in {-1, 0, +1}.                     *)
C4_FilledInDomain ==
  Imputed =>
    \A i \in Rows :
      /\ ~isna(clean[i].stars) /\ ~isna(clean[i].recommends)
      /\ ~isna(clean[i].outlook) /\ ~isna(clean[i].ceo_opinion)
      /\ isna(raw[i].recommends) => clean[i].recommends \in {REC_HALF, REC_YES}
      /\ isna(raw[i].outlook) => clean[i].outlook \in {-1, 0, 1}
      /\ isna(raw[i].ceo_opinion) => clean[i].ceo_opinion \in {-1, 0, 1}

C4_Witness ==
  /\ Imputed
  /\ \E i \in Rows :
       /\ OnlyStars(raw[i])
       /\ raw[i].stars = 3
       /\ clean[i].recommends = REC_HALF
       /\ clean[i].outlook = 0
       /\ clean[i].ceo_opinion = 0

(* C5 (as stated): for every record in which only stars is present the    *)
(* Imputer yields recommends = yes when stars > 3 and no when stars <= 3, *)
(* and outlook = -1 when stars <= 2, +1 when stars >= 4, 0 when stars = 3. *)
C5_OnlyStarsYesNo ==
  Imputed =>
    \A i \in Rows :
      OnlyStars(raw[i])
        => /\ clean[i].recommends = IF raw[i].stars > 3 THEN REC_YES ELSE REC_NO
           /\ clean[i].outlook =
                IF raw[i].stars <= 2 THEN -1 ELSE IF raw[i].stars >= 4 THEN 1 ELSE 0

(* C5 (amended): for every record in which only stars is present the      *)
(* Imputer yields recommends = yes when stars > 3 and 0.5 when stars <= 3, *)
(* and outlook = -1 when stars <= 2, +1 when stars >= 4, 0 when stars = 3. *)
C5_OnlyStarsYesHalf ==
  Imputed =>
    \A i \in Rows :
      OnlyStars(raw[i])
        => /\ clean[i].recommends = IF raw[i].stars > 3 THEN REC_YES ELSE REC_HALF
           /\ clean[i].outlook =
                IF raw[i].stars <= 2 THEN -1 ELSE IF raw[i].stars >= 4 THEN 1 ELSE 0

C5_Witness ==
  /\ Imputed
  /\ Len(clean) = 3
  /\ \A i \in Rows : OnlyStars(raw[i])
  /\ <<raw[1].stars, raw[2].stars, raw[3].stars>> = <<5, 1, 3>>
  /\ <<clean[1].recommends, clean[2].recommends, clean[3].recommends>>
       = <<REC_YES, REC_HALF, REC_HALF>>
  /\ <<clean[1].outlook, clean[2].outlook, clean[3].outlook>> = <<1, -1, 0>>

(* C6 (as stated): the grid built by the Resampler starts at the minimum  *)
(* record timestamp and its last point is at or after the maximum record  *)
(* timestamp, also when the maximum is not a whole number of steps after  *)
(* the minimum.                                                           *)
C6_GridReachesMax ==
  Resampled =>
    /\ interp_date[1] = SetMin(Dates(clean))
    /\ interp_date[Len(interp_date)] >= SetMax(Dates(clean))

(* C6 (amended): the grid starts at the minimum record timestamp and its  *)
(* last point is at or before the maximum record timestamp and less than  *)
(* one step before it; it is the maximum exactly when the maximum is a    *)
(* whole number of steps after the minimum.                               *)
C6_GridWithinSpan ==
  Resampled =>
    LET lo == SetMin(Dates(clean))
        hi == SetMax(Dates(clean))
        last == interp_date[Len(interp_date)]
    IN  /\ interp_date[1] = lo
        /\ last <= hi
        /\ hi - last < Hour
        /\ (last = hi) <=> ((hi - lo) % Hour = 0)

C6_Witness ==
  /\ Resampled
  /\ Len(interp_date) > 1
  /\ interp_date[Len(interp_date)] < SetMax(Dates(clean))

(* C7: when the regular series is not longer than the padding of the      *)
(* order-2 zero-phase filter (in particular a series of length 1) the     *)
(* filter stage fails with SeriesTooShort and assigns no short or long    *)
(* trend; when it does not fail each trend has as many samples as the     *)
(* regular series and shares its timestamps.                              *)
C7_FilterLength ==
  /\ (FilterAttempted /\ Len(interp_date) <= padlen)
       => /\ pc = "failed" /\ err = "SeriesTooShort"
          /\ ~lp_short.assigned /\ ~lp_long.assigned
  /\ (FilterAttempted /\ Len(interp_date) > padlen)
       => /\ pc # "failed"
          /\ lp_short.assigned /\ lp_long.assigned
          /\ lp_short.len = Len(interp_date) /\ lp_long.len = Len(interp_date)
          /\ lp_short.index = interp_date /\ lp_long.index = interp_date

C7_Witness ==
  /\ pc = "failed"
  /\ err = "SeriesTooShort"
  /\ Len(interp_date) = 1
  /\ ~lp_short.assigned

(* C8: for every input on which the Deduplicator succeeds, running the    *)
(* Deduplicator again on its own output changes no timestamp and no other *)
(* field.                                                                 *)
C8_DedupIdempotent == DedupSucceeded => Dedup(clean) = clean

C8_Witness ==
  /\ pc = "impute"
  /\ \E i \in Rows : clean[i].date # raw[i].date
  /\ Dedup(clean) = clean

(* C9: the Imputer never changes a field value that was present on input, *)
(* and the outlook value of a record after the Imputer is the one the     *)
(* Imputer gives that record whatever its recommends value is.            *)
C9_PresentKept ==
  Imputed =>
    \A i \in Rows :
      /\ clean[i].stars = raw[i].stars
      /\ ~isna(raw[i].recommends) => clean[i].recommends = raw[i].recommends
      /\ ~isna(raw[i].outlook) => clean[i].outlook = raw[i].outlook
      /\ ~isna(raw[i].ceo_opinion) => clean[i].ceo_opinion = raw[i].ceo_opinion
      /\ \A v \in {NaN, REC_NO, REC_HALF, REC_YES} :
           ImputeRow([raw[i] EXCEPT !.recommends = v]).outlook = clean[i].outlook

C9_Witness ==
  /\ Imputed
  /\ \E i \in Rows :
       /\ raw[i].stars = 5
       /\ raw[i].outlook = -1
       /\ isna(raw[i].recommends)
       /\ clean[i].outlook = -1
       /\ clean[i].recommends = REC_YES

(* C10 (as stated): a run that fails has produced no output at the moment *)
(* it aborts: neither the report file nor the plot has been written.      *)
C10_NoOutputOnFailure == pc = "failed" => (~readme /\ ~plot)

====
